---- MODULE Spec2Model ----
(***************************************************************************)
(* Service state and orchestration layer of emma (email_agent.service):    *)
(* the SQLite ledger (processed_emails, digests, action_items), the digest *)
(* generator and the monitoring cycle.                                     *)
(*                                                                         *)
(* Tables are sets of rows.  Timestamps are integers (one unit = one tick  *)
(* of the wall clock `now`).  sha256 is taken to be injective: a hash is   *)
(* represented by the string that is hashed.                               *)
(***************************************************************************)
EXTENDS Integers, Sequences, FiniteSets, TLC

\* ---------------------------------------------------------------- bounds
MaxTime == 1        \* the clock runs 0..MaxTime
MaxUuid == 2        \* number of uuid4() values drawn in one behaviour
MaxStarts == 2      \* number of calls of EmmaService.start()
MaxStops == 2       \* number of calls of EmmaService.stop()
MaxFires == 2       \* number of times a scheduler trigger comes due

\* ------------------------------------------------------------ value model
\* Python None / SQL NULL in a text column.
None == "None"

\* SQL NULL in a timestamp column (completed_at).
NULL == 0 - 1

\* Python truthiness of an optional string: None and "" are falsy.
Truthy(s) == s # None /\ s # ""

\* ActionItemStatus values.
ActionItemStatus == {"pending", "in_progress", "completed", "dismissed"}

\* The n-th value returned by uuid.uuid4() in this behaviour (always fresh).
uuid4(n) == "uuid-" \o ToString(n)

\* Messages the callers hand to the ledger: Email(id, source, folder, message_id).
\* e1/e2 differ in folder only; e3/e4 share a Message-ID under different local
\* id, source and folder; e5 is e1 with an empty Message-ID header.
Emails ==
  { [id |-> "1", source |-> "a", folder |-> "INBOX", message_id |-> None],
    [id |-> "1", source |-> "a", folder |-> "Sent",  message_id |-> None],
    [id |-> "2", source |-> "a", folder |-> "INBOX", message_id |-> "<m1>"],
    [id |-> "3", source |-> "b", folder |-> "Sent",  message_id |-> "<m1>"],
    [id |-> "1", source |-> "a", folder |-> "INBOX", message_id |-> ""] }

\* The messages marked in the ledger specification: one without and two with
\* the same Message-ID.
LedgerEmails ==
  {e \in Emails : e.message_id = "<m1>" \/ (e.folder = "INBOX" /\ e.message_id = None)}

\* Classification categories stored with a record (None: not classified).
Classifications == {None, "work_admin", "spam"}

\* Categories generate() keeps out of a digest.
excluded_categories == {"promotional", "spam", "newsletter"}

\* DigestConfig.min_emails values exercised.
MinEmailsValues == {1, 2}

\* generate(period_hours=...) arguments exercised (0 is falsy: the configured
\* period is used).
PeriodHoursValues == {0, 1}

\* The extraction confidence threshold the tests configure (0.7), in hundredths.
confidence_threshold == 70

\* cleanup_old_data(days) arguments exercised.
RetentionDays == {0, 1}

VARIABLES
  now,               \* datetime.now()
  processed_emails,  \* table processed_emails
  digests,           \* table digests
  action_items,      \* table action_items
  uuid_count,        \* number of uuid4() values drawn so far
  config,            \* DigestConfig fields (fixed at construction)
  settings,          \* Settings fields the monitor reads (fixed at construction)
  mailbox,           \* the messages the mail stores hold (indices of Messages)
  notmuch_tags,      \* notmuch ids carrying the processed tag
  service,           \* EmmaService: _running, _shutdown_event, the scheduler
  loop,              \* the asyncio event loop the service runs on
  last               \* the last ledger/generator call and what it returned

vars == <<now, processed_emails, digests, action_items, uuid_count, config, settings,
          mailbox, notmuch_tags, service, loop, last>>

\* ------------------------------------------------------------ state.py
\* Mutant: the Message-ID is hashed together with the source.
generate_email_hash_per_source(email_id, source, folder, message_id) ==
  IF Truthy(message_id) THEN source \o ":" \o message_id
  ELSE source \o ":" \o folder \o ":" \o email_id

\* _generate_email_hash: sha256 of message_id if truthy, else of
\* "source:folder:email_id".
generate_email_hash(email_id, source, folder, message_id) ==
  IF Truthy(message_id) THEN message_id
  ELSE source \o ":" \o folder \o ":" \o email_id

\* The ledger row built by mark_email_processed.
ProcessedEmail(email_id, source, folder, message_id, classification, digest_id, t) ==
  [ id |-> generate_email_hash(email_id, source, folder, message_id),
    message_id |-> message_id, email_id |-> email_id, source |-> source,
    folder |-> folder, processed_at |-> t, digest_id |-> digest_id,
    classification |-> classification ]

\* Mutant: plain INSERT into a table without the primary key doing REPLACE.
mark_email_processed_insert(table, row) == table \cup {row}

\* INSERT OR REPLACE INTO processed_emails: the row with the same primary key
\* is removed, the new row is inserted.
mark_email_processed(table, row) ==
  {r \in table : r.id # row.id} \cup {row}

\* is_email_processed: SELECT 1 FROM processed_emails WHERE id = hash.
is_email_processed(table, email_id, source, folder, message_id) ==
  \E r \in table : r.id = generate_email_hash(email_id, source, folder, message_id)

\* get_undigested_emails: digest_id IS NULL AND processed_at >= since.
get_undigested_emails(table, since) ==
  {r \in table : r.digest_id = None /\ r.processed_at >= since}

\* update_email_digest_id: UPDATE processed_emails SET digest_id = ? WHERE id = ?.
update_email_digest_id(table, email_hash_id, digest_id) ==
  {IF r.id = email_hash_id THEN [r EXCEPT !.digest_id = digest_id] ELSE r : r \in table}

\* create_digest: the row inserted into digests (delivery_status pending).
Digest(id, t, period_start, period_end, email_count) ==
  [ id |-> id, created_at |-> t, period_start |-> period_start,
    period_end |-> period_end, email_count |-> email_count,
    delivery_status |-> "pending" ]

\* create_action_item: the row inserted into action_items.
ActionItem(id, email_id, t) ==
  [ id |-> id, email_id |-> email_id, created_at |-> t,
    status |-> "pending", completed_at |-> NULL ]

\* ------------------------------------------------- daemon.py: construction
\* A task or callback of the event loop: what it runs, for which start()/
\* stop() call or scheduler job, and where it stands.
Task(kind, name, pc, flag) == [kind |-> kind, name |-> name, pc |-> pc, flag |-> flag]

\* Nothing is executing on the event loop.
Idle == Task("idle", "", "", FALSE)

\* EmmaService.__init__: _running False, _shutdown_event not set, the
\* AsyncIOScheduler constructed (not running) with no job.
EmmaService ==
  [running |-> FALSE, shutdown_event |-> FALSE, scheduler_running |-> FALSE,
   jobs |-> {}]

\* The event loop when the service is constructed: no task is ready or
\* executing, nothing waits on the shutdown event, the executor has no job
\* instance.
EventLoop ==
  [ready |-> <<>>, current |-> Idle, waiters |-> <<>>, instances |-> {},
   starts |-> 0, stops |-> 0, fires |-> 0, returned |-> {}, interrupted |-> {}]

\* ------------------------------------------------------------- initial state
InitWith(configs, settings_values) ==
  /\ now = 0
  /\ processed_emails = {}
  /\ digests = {}
  /\ action_items = {}
  /\ uuid_count = 0
  /\ config \in configs
  /\ settings \in settings_values
  /\ mailbox = {}
  /\ notmuch_tags = {}
  /\ service = EmmaService
  /\ loop = EventLoop
  /\ last = [op |-> "init"]

\* Any digest configuration, default settings (notmuch.enabled = True).
Init ==
  InitWith([min_emails : MinEmailsValues, include_action_items : BOOLEAN,
            period_hours : {1}, delivery : {<<>>}],
           {[notmuch_enabled |-> TRUE]})

\* The default digest configuration, notmuch enabled or disabled.
InitMonitor ==
  InitWith({[min_emails |-> 1, include_action_items |-> TRUE, period_hours |-> 1,
             delivery |-> <<>>]},
           [notmuch_enabled : BOOLEAN])

\* The wall clock advances.
Tick ==
  /\ now < MaxTime
  /\ now' = now + 1
  /\ last' = [op |-> "tick"]
  /\ UNCHANGED <<processed_emails, digests, action_items, uuid_count, config, settings, mailbox, notmuch_tags, service, loop>>

\* ServiceState.mark_email_processed(email_id, source, folder, message_id,
\*                                   classification, digest_id=d)
MarkEmailProcessed(e, c, d) ==
    LET row == ProcessedEmail(e.id, e.source, e.folder, e.message_id, c, d, now) IN
    /\ processed_emails' = mark_email_processed(processed_emails, row)
    /\ last' = [op |-> "mark_email_processed", id |-> row.id,
                replaced |-> {r.email_id : r \in {x \in processed_emails : x.id = row.id}}]
    /\ UNCHANGED <<now, digests, action_items, uuid_count, config, settings, mailbox, notmuch_tags, service, loop>>

\* ------------------------------------------------------------ digest.py
\* (e.classification or {}).get("category", "other")
Category(r) == IF r.classification = None THEN "other" ELSE r.classification

\* The relevant records: all_emails without the excluded categories.
RelevantEmails(all_emails) ==
  {r \in all_emails : Category(r) \notin excluded_categories}

\* Mutant: the excluded records are left without the "filtered" link.
LinkFiltered_skip(table, all_emails, emails) == table

\* for email in all_emails: if email not in emails:
\*     update_email_digest_id(email.id, "filtered")
LinkFiltered(table, all_emails, emails) ==
  {IF r \in all_emails /\ r \notin emails
     THEN [r EXCEPT !.digest_id = "filtered"] ELSE r : r \in table}

\* Mutant: the relevant records are not linked to the new digest.
LinkDigest_skip(table, emails, digest_id) == table

\* for email in emails: update_email_digest_id(email.id, digest.id)
LinkDigest(table, emails, digest_id) ==
  {IF r.id \in {e.id : e \in emails}
     THEN [r EXCEPT !.digest_id = digest_id] ELSE r : r \in table}

\* Mutant: only the first early return, for no relevant emails at all.
BelowThreshold_empty_only(emails, force) == emails = {} /\ ~force

\* The two early returns of generate(): no relevant emails, or fewer than
\* config.min_emails, and force not set.
BelowThreshold(emails, force) ==
  \/ emails = {} /\ ~force
  \/ Cardinality(emails) < config.min_emails /\ ~force

\* _generate_markdown with config.include_action_items calls
\* state.list_action_items(relevance="direct", limit=20); the method of
\* state.py takes no `relevance` keyword, so the call raises TypeError.
MarkdownRaises == config.include_action_items

\* DigestGenerator.generate(period_hours, force=...)
Generate(period_hours, force) ==
    LET period == IF period_hours # 0 THEN period_hours ELSE config.period_hours
        period_end == now
        period_start == period_end - period
        all_emails == get_undigested_emails(processed_emails, period_start)
        emails == RelevantEmails(all_emails)
        id == uuid4(uuid_count + 1)
    IN
    IF BelowThreshold(emails, force) THEN
      /\ last' = [op |-> "generate", result |-> "null", digest |-> None,
                  force |-> force, since |-> period_start]
      /\ UNCHANGED <<now, processed_emails, digests, action_items, uuid_count, config, settings, mailbox, notmuch_tags>>
    ELSE IF MarkdownRaises THEN
      /\ last' = [op |-> "generate", result |-> "raised", digest |-> None,
                  force |-> force, since |-> period_start]
      /\ UNCHANGED <<now, processed_emails, digests, action_items, uuid_count, config, settings, mailbox, notmuch_tags>>
    ELSE
      /\ uuid_count < MaxUuid
      /\ uuid_count' = uuid_count + 1
      /\ digests' = digests \cup
           {Digest(id, now, period_start, period_end, Cardinality(emails))}
      /\ processed_emails' =
           LinkDigest(LinkFiltered(processed_emails, all_emails, emails), emails, id)
      /\ last' = [op |-> "generate", result |-> "digest", digest |-> id,
                  force |-> force, since |-> period_start]
      /\ UNCHANGED <<now, action_items, config, settings, mailbox, notmuch_tags>>

\* ------------------------------------------------- state.py: action items
\* ServiceState.create_action_item(email_id, title, ...)
CreateActionItem(e) ==
    LET id == uuid4(uuid_count + 1) IN
    /\ uuid_count < MaxUuid
    /\ uuid_count' = uuid_count + 1
    /\ action_items' = action_items \cup
         {ActionItem(id, generate_email_hash(e.id, e.source, e.folder, e.message_id), now)}
    /\ last' = [op |-> "create_action_item", id |-> id]
    /\ UNCHANGED <<now, processed_emails, digests, config, settings, mailbox, notmuch_tags, service, loop>>

\* Mutant: UPDATE without the WHERE id = ? restriction.
update_action_status_any_row(table, item_id, status, t) ==
  {[r EXCEPT !.status = status,
             !.completed_at = IF status = "completed" THEN t ELSE r.completed_at]
     : r \in table}

\* Mutant: the completion timestamp is never written.
update_action_status_no_timestamp(table, item_id, status, t) ==
  {IF r.id = item_id THEN [r EXCEPT !.status = status] ELSE r : r \in table}

\* Mutant: completed_at = ? without COALESCE.
update_action_status_overwrite(table, item_id, status, t) ==
  {IF r.id = item_id
     THEN [r EXCEPT !.status = status,
                    !.completed_at = IF status = "completed" THEN t ELSE NULL]
     ELSE r : r \in table}

\* UPDATE action_items SET status = ?, completed_at = COALESCE(?, completed_at)
\* WHERE id = ?   with ? = now if status is COMPLETED, else NULL.
update_action_status(table, item_id, status, t) ==
  {IF r.id = item_id
     THEN [r EXCEPT !.status = status,
                    !.completed_at = IF status = "completed" THEN t ELSE r.completed_at]
     ELSE r : r \in table}

\* Item ids handed to update_action_status: the stored ones and an unknown one.
ItemIds == {r.id : r \in action_items} \cup {"no-such-item"}

\* ServiceState.update_action_status(item_id, status); returns rowcount > 0.
UpdateActionStatus ==
  \E item_id \in ItemIds, status \in ActionItemStatus :
    /\ action_items' = update_action_status(action_items, item_id, status, now)
    /\ last' = [op |-> "update_action_status", id |-> item_id, status |-> status]
    /\ UNCHANGED <<now, processed_emails, digests, uuid_count, config, settings, mailbox, notmuch_tags, service, loop>>

\* ActionItemManager.complete / dismiss / start: update_action_status with a
\* fixed status.
ManagerUpdate(item_id, status) ==
  /\ action_items' = update_action_status(action_items, item_id, status, now)
  /\ last' = [op |-> "update_action_status", id |-> item_id, status |-> status]
  /\ UNCHANGED <<now, processed_emails, digests, uuid_count, config, settings, mailbox, notmuch_tags, service, loop>>

Complete == \E item_id \in ItemIds : ManagerUpdate(item_id, "completed")

Dismiss == \E item_id \in ItemIds : ManagerUpdate(item_id, "dismissed")

Start == \E item_id \in ItemIds : ManagerUpdate(item_id, "in_progress")

\* ------------------------------------------------------ state.py: cleanup
\* Mutant: the status filter of the action_items DELETE is dropped.
cleanup_action_items_any_status(table, cutoff) ==
  {r \in table : ~(r.created_at < cutoff)}

\* DELETE FROM action_items WHERE status IN ('completed','dismissed')
\* AND created_at < cutoff: the rows that remain.
cleanup_action_items(table, cutoff) ==
  {r \in table : ~(r.status \in {"completed", "dismissed"} /\ r.created_at < cutoff)}

\* DELETE FROM processed_emails WHERE processed_at < cutoff: the rows that remain.
cleanup_processed_emails(table, cutoff) == {r \in table : ~(r.processed_at < cutoff)}

\* DELETE FROM digests WHERE created_at < cutoff: the rows that remain.
cleanup_digests(table, cutoff) == {r \in table : ~(r.created_at < cutoff)}

\* cursor.rowcount of a DELETE: the number of rows the statement removed.
rowcount(before, after) == Cardinality(before \ after)

\* ServiceState.cleanup_old_data(days); returns the three rowcounts.
CleanupOldData(days) ==
    LET cutoff == now - days IN
    /\ processed_emails' = cleanup_processed_emails(processed_emails, cutoff)
    /\ digests' = cleanup_digests(digests, cutoff)
    /\ action_items' = cleanup_action_items(action_items, cutoff)
    /\ last' = [op |-> "cleanup_old_data", cutoff |-> cutoff,
                deleted |-> [processed_emails |-> rowcount(processed_emails, processed_emails'),
                             digests |-> rowcount(digests, digests'),
                             action_items |-> rowcount(action_items, action_items')]]
    /\ UNCHANGED <<now, uuid_count, config, settings, mailbox, notmuch_tags>>

\* ------------------------------------------------------------ monitor.py
\* The messages the stores can hold, in the order the fallback path fetches
\* them: the account (the key of imap_accounts / maildir_accounts), the
\* folder, the local id the account's source gives the message, its
\* Message-ID header, and the id notmuch indexes it under (the Message-ID
\* without angle brackets, one notmuch message per id).
Messages ==
  << [account |-> "a",   folder |-> "INBOX", id |-> "2", header |-> "<m1>", nmid |-> "m1"],
     [account |-> "b@x", folder |-> "INBOX", id |-> "1", header |-> None,   nmid |-> "sha1"],
     [account |-> "b@x", folder |-> "INBOX", id |-> "3", header |-> "<m1>", nmid |-> "m1"] >>

\* Settings.imap_accounts: IMAPSource(imap_config, name) is named by the key.
imap_accounts == {"a"}

\* Settings.maildir_accounts: MaildirSource(maildir_config) is named by
\* config.account_name, not by the key.
maildir_accounts == [key \in {"b@x"} |-> [account_name |-> "b"]]

\* MonitorConfig.folders
folders == {"INBOX"}

\* The name attribute of the source _get_sources builds for an account.
source_name(account) ==
  IF account \in imap_accounts THEN account ELSE maildir_accounts[account].account_name

\* IMAPSource / MaildirSource.fetch_emails: the Email built for a message.
fetch_emails(m) ==
  [id |-> m.id, source |-> source_name(m.account), folder |-> m.folder,
   message_id |-> m.header]

\* NotmuchSource._parse_message: id and message_id are both the notmuch id.
parse_message(m) ==
  [id |-> m.nmid, source |-> "notmuch", folder |-> m.folder, message_id |-> m.nmid]

\* The indices of 1..n that are in S, in increasing order (the fetch order).
RECURSIVE Filter(_, _)
Filter(n, S) ==
  IF n = 0 THEN <<>>
  ELSE IF n \in S THEN Append(Filter(n - 1, S), n) ELSE Filter(n - 1, S)

\* poll_sources, notmuch path: every message without the processed tag, with
\* no look at the ledger.
fetch_unprocessed ==
  LET Test(i) == /\ i \in mailbox
                 /\ Messages[i].nmid \notin notmuch_tags
                 /\ \A j \in mailbox : Messages[j].nmid = Messages[i].nmid => i <= j
      idx == Filter(Len(Messages), {i \in 1..Len(Messages) : Test(i)})
  IN [k \in 1..Len(idx) |-> parse_message(Messages[idx[k]])]

\* poll_sources, fallback path: per account and folder, every message the
\* ledger does not know under (local id, account key, folder, Message-ID).
poll_fallback ==
  LET Test(i) == /\ i \in mailbox
                 /\ Messages[i].folder \in folders
                 /\ ~is_email_processed(processed_emails, Messages[i].id,
                                        Messages[i].account, Messages[i].folder,
                                        Messages[i].header)
      idx == Filter(Len(Messages), {i \in 1..Len(Messages) : Test(i)})
  IN [k \in 1..Len(idx) |-> fetch_emails(Messages[idx[k]])]

\* ActionItemConfig declares auto_extract only: reading
\* self.config.confidence_threshold raises AttributeError.
HasConfidenceThreshold == FALSE

\* ServiceState.create_action_item takes no `relevance` keyword: the call
\* extract_from_email makes raises TypeError.
CreateAcceptsRelevance == FALSE

\* ActionItemManager.extract_from_email: the candidates it persists, given
\* the candidates the LLM returns (llm_ok: _extract_detailed returned).  Every
\* exception is caught inside and yields the empty list.
extract_from_email(candidates, llm_ok) ==
  IF ~llm_ok \/ candidates = <<>> THEN <<>>
  ELSE IF ~HasConfidenceThreshold THEN <<>>
  ELSE LET AtOrAbove(cand) == cand.confidence >= confidence_threshold
           kept == SelectSeq(candidates, AtOrAbove)
       IN IF kept # <<>> /\ ~CreateAcceptsRelevance THEN <<>> ELSE kept

\* What the collaborators of process_email do for one email: the category
\* the classifier returns or its failure, a failure in the rules engine, the
\* LLM's extraction candidates or its failure, a storage error raised by
\* mark_email_processed, and the success of the notmuch tag command.
Outcome(classification, classify_error, rules_error, llm_ok, candidates, mark_raises, tag_ok) ==
  [classification |-> classification, classify_error |-> classify_error,
   rules_error |-> rules_error, llm_ok |-> llm_ok, candidates |-> candidates,
   mark_raises |-> mark_raises, tag_ok |-> tag_ok]

\* process_email raises exactly when mark_email_processed does: the three
\* steps before it run in try/except, the notmuch tag after it too.
process_email_raises(outcome) == outcome.mark_raises

\* len(result["errors"]): one entry per failed classification and per rules
\* failure; extract_from_email never raises and adds none.
result_errors(outcome) ==
  (IF outcome.classify_error THEN 1 ELSE 0) + (IF outcome.rules_error THEN 1 ELSE 0)

\* process_email(email) with the given outcome of its collaborators;
\* uuid_base is the number of uuids drawn before.  The ledger row is written
\* under the Email's own source and folder with no digest link, unless
\* mark_email_processed raises; the notmuch tag is added when notmuch is
\* enabled, the Email has a message_id, the tag command succeeds and the id
\* matches an indexed message.  `result` is what run_cycle sees.
process_email(email, outcome, uuid_base) ==
  LET classification == IF outcome.classify_error THEN None ELSE outcome.classification
      email_hash == generate_email_hash(email.id, email.source, email.folder,
                                        email.message_id)
      persisted == extract_from_email(outcome.candidates, outcome.llm_ok)
      item_ids == [k \in 1..Len(persisted) |-> uuid4(uuid_base + k)]
      raised == process_email_raises(outcome)
  IN [row |-> ProcessedEmail(email.id, email.source, email.folder, email.message_id,
                             classification, None, now),
      items |-> {ActionItem(item_ids[k], email_hash, now) : k \in 1..Len(persisted)},
      tagged |-> /\ ~raised
                 /\ settings.notmuch_enabled
                 /\ Truthy(email.message_id)
                 /\ outcome.tag_ok
                 /\ \E j \in mailbox : Messages[j].nmid = email.message_id,
      result |-> [raised |-> raised, classification |-> classification,
                  errors |-> result_errors(outcome), action_items |-> item_ids]]

\* The ledger after the rows of processed[1..i] that did not raise are
\* written in order.
RECURSIVE mark_all(_, _, _)
mark_all(table, processed, i) ==
  IF i = 0 THEN table
  ELSE IF processed[i].result.raised THEN mark_all(table, processed, i - 1)
  ELSE mark_email_processed(mark_all(table, processed, i - 1), processed[i].row)

\* Sum of f[i] over i in 1..n.
RECURSIVE Sum(_, _)
Sum(f, n) == IF n = 0 THEN 0 ELSE f[n] + Sum(f, n - 1)

\* Mutant: one action item is counted for every email processed.
cycle_stats_item_per_email(new_emails, results) ==
  LET n == Len(results) IN
  [emails_found |-> Len(new_emails),
   emails_processed |-> Sum([i \in 1..n |-> IF results[i].raised THEN 0 ELSE 1], n),
   errors |-> Sum([i \in 1..n |-> IF results[i].raised THEN 1 ELSE results[i].errors], n),
   action_items_created |-> Sum([i \in 1..n |-> IF results[i].raised THEN 0 ELSE 1], n)]

\* Mutant: an email whose processing raised is counted as processed.
cycle_stats_processed_all(new_emails, results) ==
  LET n == Len(results) IN
  [emails_found |-> Len(new_emails),
   emails_processed |-> n,
   errors |-> Sum([i \in 1..n |-> IF results[i].raised THEN 1 ELSE results[i].errors], n),
   action_items_created |->
     Sum([i \in 1..n |-> IF results[i].raised THEN 0 ELSE Len(results[i].action_items)], n)]

\* Mutant: an email whose processing raised is not counted as an error.
cycle_stats_raise_uncounted(new_emails, results) ==
  LET n == Len(results) IN
  [emails_found |-> Len(new_emails),
   emails_processed |-> Sum([i \in 1..n |-> IF results[i].raised THEN 0 ELSE 1], n),
   errors |-> Sum([i \in 1..n |-> IF results[i].raised THEN 0 ELSE results[i].errors], n),
   action_items_created |->
     Sum([i \in 1..n |-> IF results[i].raised THEN 0 ELSE Len(results[i].action_items)], n)]

\* The statistics run_cycle aggregates over the batch.
cycle_stats(new_emails, results) ==
  LET n == Len(results) IN
  [emails_found |-> Len(new_emails),
   emails_processed |-> Sum([i \in 1..n |-> IF results[i].raised THEN 0 ELSE 1], n),
   errors |-> Sum([i \in 1..n |-> IF results[i].raised THEN 1 ELSE results[i].errors], n),
   action_items_created |->
     Sum([i \in 1..n |-> IF results[i].raised THEN 0 ELSE Len(results[i].action_items)], n)]

\* A message arrives in its account's store.
Arrive(i) ==
  /\ i \notin mailbox
  /\ mailbox' = mailbox \cup {i}
  /\ last' = [op |-> "arrive"]
  /\ UNCHANGED <<now, processed_emails, digests, action_items, uuid_count, config,
                 settings, notmuch_tags, service, loop>>

\* EmailMonitor.run_cycle: poll (notmuch if enabled and working, else the
\* fallback sources), then process every polled email, each with one of the
\* given outcomes.
RunCycle(Outcomes) ==
  \E notmuch_ok \in BOOLEAN :
    LET use_notmuch == settings.notmuch_enabled /\ notmuch_ok IN
    /\ settings.notmuch_enabled \/ notmuch_ok
    /\ \E new_emails \in {IF use_notmuch THEN fetch_unprocessed ELSE poll_fallback} :
       \E outcomes \in [1..Len(new_emails) -> Outcomes] :
       \E drawn \in {[i \in 1..Len(new_emails) |->
                        Len(extract_from_email(outcomes[i].candidates,
                                               outcomes[i].llm_ok))]} :
       \E processed \in {[i \in 1..Len(new_emails) |->
                            process_email(new_emails[i], outcomes[i],
                                          uuid_count + Sum(drawn, i - 1))]} :
         LET n == Len(new_emails)
             results == [i \in 1..n |-> processed[i].result]
         IN /\ uuid_count + Sum(drawn, n) <= MaxUuid
            /\ processed_emails' = mark_all(processed_emails, processed, n)
            /\ notmuch_tags' = notmuch_tags \cup
                 {new_emails[i].message_id : i \in {k \in 1..n : processed[k].tagged}}
            /\ action_items' = action_items \cup
                 UNION {processed[i].items : i \in 1..n}
            /\ uuid_count' = uuid_count + Sum(drawn, n)
            /\ last' = [op |-> "run_cycle",
                        path |-> IF use_notmuch THEN "notmuch" ELSE "fallback",
                        new_emails |-> new_emails,
                        outcomes |-> outcomes,
                        results |-> results,
                        stats |-> cycle_stats(new_emails, results)]
    /\ UNCHANGED <<now, digests, config, settings, mailbox>>

\* --------------------------------------------------------- specifications
\* The ledger of processed emails and the digest generator, over the records
\* the monitor writes (digest_id=None).
LedgerMark ==
  \E e \in LedgerEmails, c \in Classifications : MarkEmailProcessed(e, c, None)

LedgerGenerate ==
  \E period_hours \in PeriodHoursValues, force \in BOOLEAN :
    Generate(period_hours, force) /\ UNCHANGED <<service, loop>>

LedgerCleanup == \E days \in RetentionDays : CleanupOldData(days) /\ UNCHANGED <<service, loop>>

NextLedger == Tick \/ LedgerMark \/ LedgerGenerate \/ LedgerCleanup

SpecLedger == Init /\ [][NextLedger]_vars

\* The action-item store.
ActionsCreate == \E e \in {e \in Emails : e.message_id = "<m1>"} : CreateActionItem(e)

ActionsCleanup == \E days \in RetentionDays : CleanupOldData(days) /\ UNCHANGED <<service, loop>>

NextActions ==
  Tick \/ ActionsCreate \/ UpdateActionStatus \/ Complete \/ Dismiss \/ Start
       \/ ActionsCleanup

\* The default digest configuration and settings.
InitActions ==
  InitWith({[min_emails |-> 1, include_action_items |-> TRUE, period_hours |-> 1,
             delivery |-> <<>>]},
           {[notmuch_enabled |-> TRUE]})

SpecActions == InitActions /\ [][NextActions]_vars

\* Cleanup over the three tables: one processed record, forced digests and
\* action items in every status.
CleanupMark ==
  \E e \in {e \in Emails : e.message_id = "<m1>" /\ e.source = "a"} :
    MarkEmailProcessed(e, None, None)

CleanupGenerate == Generate(0, TRUE) /\ UNCHANGED <<service, loop>>

NextCleanup ==
  Tick \/ CleanupMark \/ CleanupGenerate \/ ActionsCreate \/ Complete \/ Dismiss
       \/ Start \/ ActionsCleanup

\* A digest configuration without the action-item section.
InitCleanup ==
  InitWith({[min_emails |-> 1, include_action_items |-> FALSE, period_hours |-> 1,
             delivery |-> <<>>]},
           {[notmuch_enabled |-> TRUE]})

SpecCleanup == InitCleanup /\ [][NextCleanup]_vars

\* The monitor over the mail stores.
MonitorArrive == \E i \in 1..Len(Messages) : Arrive(i)

\* Collaborators that do not fail: the classifier's category (or none) and
\* the notmuch tag command's success vary.
MonitorOutcomes ==
  {Outcome(c, FALSE, FALSE, TRUE, <<>>, FALSE, t) :
     c \in {None, "work_admin"}, t \in BOOLEAN}

MonitorCycle == RunCycle(MonitorOutcomes) /\ UNCHANGED <<service, loop>>

NextMonitor == Tick \/ MonitorArrive \/ MonitorCycle

SpecMonitor == InitMonitor /\ [][NextMonitor]_vars

\* ------------------------------------------- the identity function alone
\* Arguments of _generate_email_hash exercised: two local ids, sources and
\* folders, and an absent, an empty and two present Message-IDs.
HashArgs ==
  [id : {"1", "2"}, source : {"a", "b"}, folder : {"INBOX", "Sent"},
   message_id : {None, "", "<m1>", "<m2>"}]

\* Two calls of _generate_email_hash and the keys they return.
GenerateEmailHash(x, y) ==
  /\ last' = [op |-> "generate_email_hash", x |-> x, y |-> y,
              hx |-> generate_email_hash(x.id, x.source, x.folder, x.message_id),
              hy |-> generate_email_hash(y.id, y.source, y.folder, y.message_id)]
  /\ UNCHANGED <<now, processed_emails, digests, action_items, uuid_count, config,
                 settings, mailbox, notmuch_tags, service, loop>>

NextIdentity == \E x \in HashArgs, y \in HashArgs : GenerateEmailHash(x, y)

SpecIdentity == InitActions /\ [][NextIdentity]_vars

\* ----------------------------------------------------- digest.py: deliver
\* DigestConfig.delivery lists exercised: the type of each target (only
\* "file" is known to deliver()).
DeliveryConfigs == {<<>>, <<"file", "file">>, <<"email", "file">>}

\* Outcomes of _deliver_file: it returns True or raises.
DeliverOutcomes == {"ok", "raise"}

\* update_digest_status: UPDATE digests SET delivery_status = ? WHERE id = ?
update_digest_status(table, digest_id, status) ==
  {IF d.id = digest_id THEN [d EXCEPT !.delivery_status = status] ELSE d : d \in table}

\* Mutant: the loop over the targets ends at the first target that raises.
RECURSIVE attempts_until_failure(_, _, _)
attempts_until_failure(i, delivery_configs, outcomes) ==
  IF i > Len(delivery_configs) THEN <<>>
  ELSE IF delivery_configs[i] = "file" /\ outcomes[i] = "raise"
    THEN <<[target |-> i, delivered |-> FALSE]>>
    ELSE <<[target |-> i, delivered |-> delivery_configs[i] = "file"]>>
           \o attempts_until_failure(i + 1, delivery_configs, outcomes)

\* The loop of deliver() over delivery_configs[i..]: every target is
\* attempted; a target delivers when its type is "file" and _deliver_file
\* returns; an exception or an unknown type is logged.
RECURSIVE attempts(_, _, _)
attempts(i, delivery_configs, outcomes) ==
  IF i > Len(delivery_configs) THEN <<>>
  ELSE <<[target |-> i,
          delivered |-> delivery_configs[i] = "file" /\ outcomes[i] = "ok"]>>
         \o attempts(i + 1, delivery_configs, outcomes)

\* DigestGenerator.deliver(digest), digest a persisted Digest whose
\* raw_content is present or not.
Deliver(digest_id, has_content, outcomes) ==
    LET delivery_configs == IF config.delivery = <<>> THEN <<"file">>
                            ELSE config.delivery
        attempted == attempts(1, delivery_configs, outcomes)
        success == \E i \in 1..Len(attempted) : attempted[i].delivered
        status == IF success THEN "delivered" ELSE "failed"
    IN
    /\ \E d \in digests : d.id = digest_id
    /\ IF ~has_content THEN
         /\ last' = [op |-> "deliver", digest |-> digest_id, has_content |-> FALSE,
                     attempted |-> <<>>, written |-> <<>>, result |-> FALSE]
         /\ UNCHANGED digests
       ELSE
         /\ digests' = update_digest_status(digests, digest_id, status)
         /\ last' = [op |-> "deliver", digest |-> digest_id, has_content |-> TRUE,
                     attempted |-> attempted, written |-> <<status>>,
                     result |-> success]
    /\ UNCHANGED <<now, processed_emails, action_items, uuid_count, config, settings,
                   mailbox, notmuch_tags>>

\* Digest generation and delivery with every delivery configuration.
InitDeliver ==
  InitWith([min_emails : {1}, include_action_items : {FALSE}, period_hours : {1},
            delivery : DeliveryConfigs],
           {[notmuch_enabled |-> TRUE]})

DeliverDigest ==
  \E digest_id \in {uuid4(n) : n \in 1..MaxUuid}, has_content \in BOOLEAN,
     outcomes \in [1..(IF config.delivery = <<>> THEN 1 ELSE Len(config.delivery))
                      -> DeliverOutcomes] :
    Deliver(digest_id, has_content, outcomes) /\ UNCHANGED <<service, loop>>

NextDeliver == CleanupMark \/ CleanupGenerate \/ DeliverDigest

SpecDeliver == InitDeliver /\ [][NextDeliver]_vars

\* The monitor with failing collaborators: the classifier, the rules engine
\* or the extraction LLM fails, the LLM returns extraction candidates, or
\* the ledger write raises a storage error.
CycleOutcomes ==
  { Outcome("work_admin", FALSE, FALSE, TRUE, <<>>, FALSE, TRUE),
    Outcome(None, TRUE, FALSE, TRUE, <<>>, FALSE, TRUE),
    Outcome(None, TRUE, TRUE, TRUE, <<>>, FALSE, TRUE),
    Outcome("work_admin", FALSE, FALSE, FALSE, <<>>, FALSE, TRUE),
    Outcome("work_admin", FALSE, FALSE, TRUE,
            <<[confidence |-> 85, relevance |-> None],
              [confidence |-> 30, relevance |-> "informational"]>>, FALSE, TRUE),
    Outcome("work_admin", FALSE, FALSE, TRUE, <<>>, TRUE, TRUE) }

FailingCycle == RunCycle(CycleOutcomes) /\ UNCHANGED <<service, loop>>

NextCycle == Tick \/ MonitorArrive \/ FailingCycle

SpecCycle == InitMonitor /\ [][NextCycle]_vars

\* ------------------------------------------------------------- daemon.py
\* The ledger, the mail stores and the configuration, which the lifecycle
\* operations of the service do not touch.
stores == <<now, processed_emails, digests, action_items, uuid_count, config, settings,
            mailbox, notmuch_tags>>

\* The ids _setup_jobs registers: monitor.enabled and digest.enabled hold,
\* digest.schedule is ["08:00"].
ScheduledJobs == {"monitor", "digest_08:00", "cleanup"}

\* cleanup_old_data(days=30) of _run_cleanup_job.
CleanupDays == 30

\* The collaborators of a scheduled cycle do not fail.
DaemonOutcomes == {Outcome("work_admin", FALSE, FALSE, TRUE, <<>>, FALSE, TRUE)}

\* Mutant: the awaits inside a job wait for I/O and give the loop to other
\* tasks.
AwaitYields_io == TRUE

\* Whether an await inside a job returns control to the event loop. Every
\* await of run_cycle, generate and deliver is on a coroutine of this code
\* base whose body does its I/O with blocking calls (imaplib, subprocess,
\* sqlite3, the LLM client, open()), so none of them suspends the task.
AwaitYields == FALSE

\* A task that has begun a job and not finished it: a scheduled job past its
\* first statement, or start() inside its initial monitor cycle.
InFlight(t) ==
  \/ t.kind = "job" /\ t.pc # "new"
  \/ t.kind = "start" /\ t.pc = "cycle"

\* The monitor cycles among the tasks t.
IsMonitorCycle(t) ==
  InFlight(t) /\ (t.kind = "start" \/ t.name = "monitor")

\* The tasks the loop holds: the executing one and the ready ones.
Tasks == {loop.current} \cup {loop.ready[i] : i \in 1..Len(loop.ready)}

\* Mutant: every await inside a job suspends the task.
AtAwait_suspended(l, t) == [l EXCEPT !.ready = Append(@, t), !.current = Idle]

\* The loop with task t at an await inside a job: t keeps the loop, or (if
\* awaits yield) waits for its I/O among the ready tasks.
AtAwait(l, t) ==
  IF AwaitYields THEN [l EXCEPT !.ready = Append(@, t), !.current = Idle]
  ELSE [l EXCEPT !.current = t]

\* The loop after the executing job task has returned: the executor's
\* done-callback releases the job's instance.
Finished(l) ==
  [l EXCEPT !.current = Idle,
            !.instances = IF l.current.kind = "job" THEN @ \ {l.current.name} ELSE @]

\* The task that goes on executing: the one that holds the loop, or, on an
\* idle loop, a suspended one at the head of the ready tasks.
Runnable ==
  IF loop.current # Idle THEN {loop.current}
  ELSE IF loop.ready # <<>> /\ InFlight(Head(loop.ready)) THEN {Head(loop.ready)}
  ELSE {}

\* The loop with the runnable task executing.
Taken ==
  IF loop.current # Idle THEN loop
  ELSE [loop EXCEPT !.ready = Tail(@), !.current = Head(loop.ready)]

\* start() called: asyncio.run(service.start()) in the CLI, or a task created
\* by another caller. The coroutine runs when the loop reaches it.
CallStart ==
  /\ loop.starts < MaxStarts
  /\ loop' = [loop EXCEPT !.starts = @ + 1,
                !.ready = Append(@, Task("start", ToString(loop.starts + 1), "new", FALSE))]
  /\ last' = [op |-> "call_start"]
  /\ UNCHANGED <<stores, service>>

\* SIGTERM/SIGINT (the handler start() installs creates a task for stop())
\* or a caller's stop(). The flag remembers whether a job was in flight when
\* the stop was requested.
CallStop ==
  /\ loop.stops < MaxStops
  /\ loop' = [loop EXCEPT !.stops = @ + 1,
                !.ready = Append(@, Task("stop", ToString(loop.stops + 1), "new",
                                         \E t \in Tasks : InFlight(t)))]
  /\ last' = [op |-> "call_stop"]
  /\ UNCHANGED <<stores, service>>

\* The trigger of a registered job comes due: the scheduler's timer callback
\* becomes ready, whatever the loop is executing. The scheduler keeps one
\* timer, so its callback is pending at most once.
TimerDue(job) ==
  /\ service.scheduler_running
  /\ job \in service.jobs
  /\ loop.fires < MaxFires
  /\ \A t \in Tasks : t.kind # "wakeup"
  /\ loop' = [loop EXCEPT !.fires = @ + 1,
                !.ready = Append(@, Task("wakeup", job, "new", FALSE))]
  /\ last' = [op |-> "timer", job |-> job]
  /\ UNCHANGED <<stores, service>>

\* The loop takes the next ready task or callback; it does so only when
\* nothing is executing.
Next_ready(kind) ==
  /\ loop.current = Idle
  /\ loop.ready # <<>>
  /\ Head(loop.ready).kind = kind

\* Mutant: start() without its guard.
AlreadyRunning_unchecked == FALSE

\* start(): if self._running.
AlreadyRunning == service.running

\* start() up to its initial cycle: return if already running; else set
\* _running, clear the event, register the jobs, start the scheduler and
\* enter _run_monitor_job().
RunStart ==
  /\ Next_ready("start")
  /\ Head(loop.ready).pc = "new"
  /\ LET t == Head(loop.ready)
         rest == [loop EXCEPT !.ready = Tail(@)]
     IN IF AlreadyRunning THEN
          /\ loop' = [rest EXCEPT !.returned = @ \cup {t.name}]
          /\ last' = [op |-> "start", name |-> t.name, effect |-> FALSE]
          /\ UNCHANGED service
        ELSE
          /\ service' = [service EXCEPT !.running = TRUE, !.shutdown_event = FALSE,
                                        !.jobs = @ \cup ScheduledJobs,
                                        !.scheduler_running = TRUE]
          /\ loop' = AtAwait(rest, [t EXCEPT !.pc = "cycle"])
          /\ last' = [op |-> "start", name |-> t.name, effect |-> TRUE]
  /\ UNCHANGED stores

\* The initial cycle of start() (await self._run_monitor_job()), then
\* await self._shutdown_event.wait(): return if the event is set, else wait.
InitialCycle ==
  /\ \E t \in Runnable :
       /\ t.kind = "start"
       /\ RunCycle(DaemonOutcomes)
       /\ loop' = IF service.shutdown_event
                  THEN [Taken EXCEPT !.current = Idle, !.returned = @ \cup {t.name}]
                  ELSE [Taken EXCEPT !.current = Idle, !.waiters = Append(@, t.name)]
  /\ UNCHANGED service

\* stop() up to the scheduler shutdown: return if not running, else clear
\* _running.
RunStop ==
  /\ Next_ready("stop")
  /\ LET t == Head(loop.ready)
         rest == [loop EXCEPT !.ready = Tail(@)]
     IN IF ~service.running THEN
          /\ loop' = rest
          /\ last' = [op |-> "stop", name |-> t.name, effect |-> FALSE,
                      during_job |-> t.flag]
          /\ UNCHANGED service
        ELSE
          /\ service' = [service EXCEPT !.running = FALSE]
          /\ loop' = [rest EXCEPT !.current = [t EXCEPT !.pc = "shutdown"]]
          /\ last' = [op |-> "stopping", name |-> t.name]
  /\ UNCHANGED stores

\* The rest of stop(): scheduler.shutdown(wait=True) if the scheduler runs
\* (AsyncIOScheduler stops; its executor cancels the job tasks that have
\* not finished and forgets them; the job store is emptied), then
\* _shutdown_event.set(), which makes every waiter ready in waiting order.
Shutdown ==
  /\ loop.current.kind = "stop"
  /\ LET keep(t) == ~(service.scheduler_running /\ t.kind = "job")
         cut == {t \in Tasks : ~keep(t) /\ InFlight(t)}
         woken == [i \in 1..Len(loop.waiters) |->
                     Task("start", loop.waiters[i], "woken", FALSE)]
     IN /\ service' = [service EXCEPT !.scheduler_running = FALSE,
                                      !.jobs = IF service.scheduler_running THEN {} ELSE @,
                                      !.shutdown_event = TRUE]
        /\ loop' = [loop EXCEPT !.current = Idle,
                                !.ready = SelectSeq(@, keep) \o woken,
                                !.waiters = <<>>,
                                !.instances = IF service.scheduler_running THEN {} ELSE @,
                                !.interrupted = @ \cup {t.name : t \in cut}]
        /\ last' = [op |-> "stop", name |-> loop.current.name, effect |-> TRUE,
                    during_job |-> loop.current.flag]
  /\ UNCHANGED stores

\* The blocked start() resumes from _shutdown_event.wait() and returns.
ReturnStart ==
  /\ Next_ready("start")
  /\ Head(loop.ready).pc = "woken"
  /\ loop' = [loop EXCEPT !.ready = Tail(@),
                          !.returned = @ \cup {Head(loop.ready).name}]
  /\ last' = [op |-> "start_returned", name |-> Head(loop.ready).name,
              running |-> service.running]
  /\ UNCHANGED <<stores, service>>

\* The scheduler's wakeup: the due job is submitted to the executor as a
\* task unless the scheduler has stopped or an instance of the job is still
\* running (max_instances is 1).
Wakeup ==
  /\ Next_ready("wakeup")
  /\ LET job == Head(loop.ready).name
         rest == [loop EXCEPT !.ready = Tail(@)]
         submit == service.scheduler_running /\ job \in service.jobs
                   /\ job \notin loop.instances
     IN /\ loop' = IF submit
                   THEN [rest EXCEPT !.ready = Append(@, Task("job", job, "new", FALSE)),
                                     !.instances = @ \cup {job}]
                   ELSE rest
        /\ last' = [op |-> "wakeup", job |-> job, submitted |-> submit]
  /\ UNCHANGED <<stores, service>>

\* A submitted job task begins: _run_monitor_job, _run_digest_job or
\* _run_cleanup_job up to its first await.
RunJob ==
  /\ Next_ready("job")
  /\ Head(loop.ready).pc = "new"
  /\ loop' = AtAwait([loop EXCEPT !.ready = Tail(@)],
                     [Head(loop.ready) EXCEPT !.pc = "run"])
  /\ last' = [op |-> "job", job |-> Head(loop.ready).name]
  /\ UNCHANGED <<stores, service>>

\* _run_monitor_job: await self.monitor.run_cycle().
MonitorJob ==
  /\ \E t \in Runnable :
       /\ t.kind = "job" /\ t.name = "monitor"
       /\ RunCycle(DaemonOutcomes)
       /\ loop' = Finished(Taken)
  /\ UNCHANGED service

\* _run_digest_job: await self.digest_generator.generate(period_hours); the
\* job goes on to deliver() if a digest came back, and ends if none did or
\* generate() raised.
DigestGenerate ==
  /\ \E t \in Runnable :
       /\ t.kind = "job" /\ t.name = "digest_08:00" /\ t.pc = "run"
       /\ Generate(config.period_hours, FALSE)
       /\ loop' = IF last'.result = "digest"
                  THEN AtAwait(Taken, [t EXCEPT !.pc = "deliver"])
                  ELSE Finished(Taken)
  /\ UNCHANGED service

\* _run_digest_job: await self.digest_generator.deliver(digest), for the
\* digest generate() has just created.
DigestDeliver ==
  /\ \E t \in Runnable :
       /\ t.kind = "job" /\ t.pc = "deliver"
       /\ \E d \in {d \in digests : d.delivery_status = "pending"},
             outcomes \in [1..1 -> DeliverOutcomes] :
            Deliver(d.id, TRUE, outcomes)
       /\ loop' = Finished(Taken)
  /\ UNCHANGED service

\* _run_cleanup_job: self.state.cleanup_old_data(days=30).
CleanupJob ==
  /\ \E t \in Runnable :
       /\ t.kind = "job" /\ t.name = "cleanup"
       /\ CleanupOldData(CleanupDays)
       /\ loop' = Finished(Taken)
  /\ UNCHANGED service

\* The service over mail stores that hold two messages, with the digest
\* section that needs no action items.
InitDaemon ==
  /\ now = 0
  /\ processed_emails = {}
  /\ digests = {}
  /\ action_items = {}
  /\ uuid_count = 0
  /\ config = [min_emails |-> 1, include_action_items |-> FALSE, period_hours |-> 1,
               delivery |-> <<>>]
  /\ settings = [notmuch_enabled |-> TRUE]
  /\ mailbox = {1, 2}
  /\ notmuch_tags = {}
  /\ service = EmmaService
  /\ loop = EventLoop
  /\ last = [op |-> "init"]

\* The lifecycle state of the service: Stopping inside stop(), Stopped while
\* _running is False, Starting while start() has not reached its wait on the
\* shutdown event, Running after that.
Phase ==
  IF \E t \in Tasks : t.kind = "stop" /\ t.pc = "shutdown" THEN "Stopping"
  ELSE IF ~service.running THEN "Stopped"
  ELSE IF \E t \in Tasks : t.kind = "start" /\ t.pc = "cycle" THEN "Starting"
  ELSE "Running"

DaemonTimer == \E job \in ScheduledJobs : TimerDue(job)

\* What the event loop does by itself.
LoopRuns ==
  RunStart \/ InitialCycle \/ RunStop \/ Shutdown \/ ReturnStart
           \/ Wakeup \/ RunJob \/ MonitorJob \/ DigestGenerate \/ DigestDeliver
           \/ CleanupJob

NextDaemon == CallStart \/ CallStop \/ DaemonTimer \/ LoopRuns

SpecDaemon == InitDaemon /\ [][NextDaemon]_vars

\* The event loop keeps running while it has something to run.
FairDaemon == SpecDaemon /\ WF_vars(LoopRuns)

\* ---------------------------------------------- action_items.py: extraction
\* The exception raised inside the try block of extract_from_email, or None:
\* the LLM call or the parsing of its answer fails in _extract_detailed; the
\* confidence filter reads the missing config attribute for the first
\* candidate; create_action_item rejects the `relevance` keyword.
extraction_error(candidates, llm_ok) ==
  LET AtOrAbove(cand) == cand.confidence >= confidence_threshold IN
  IF ~llm_ok THEN "LLMError"
  ELSE IF candidates = <<>> THEN None
  ELSE IF ~HasConfidenceThreshold THEN "AttributeError"
  ELSE IF SelectSeq(candidates, AtOrAbove) # <<>> /\ ~CreateAcceptsRelevance THEN "TypeError"
  ELSE None

\* Mutant: extract_from_email without its except clause.
extract_catches_nothing(error) == FALSE

\* `except Exception` of extract_from_email: every error above is caught.
extract_catches(error) == error \in {"LLMError", "AttributeError", "TypeError"}

\* Candidate lists the LLM returns, by confidence (in hundredths).
ExtractCandidates ==
  { <<>>,
    <<[confidence |-> 85, relevance |-> None]>>,
    <<[confidence |-> 70, relevance |-> "direct"]>>,
    <<[confidence |-> 30, relevance |-> "informational"]>>,
    <<[confidence |-> 85, relevance |-> None], [confidence |-> 30, relevance |-> None]>>,
    <<[confidence |-> 30, relevance |-> None], [confidence |-> 85, relevance |-> "direct"]>> }

\* ActionItemManager.extract_from_email(email) called on its own: without an
\* LLM processor it returns [] at once; else it persists and returns what
\* the try block yields, returns [] if an exception is caught there, and
\* raises if one is not.
ExtractFromEmail(email, has_llm, llm_ok, candidates) ==
  LET error == IF has_llm THEN extraction_error(candidates, llm_ok) ELSE None
      raised == error # None /\ ~extract_catches(error)
      persisted == IF has_llm THEN extract_from_email(candidates, llm_ok) ELSE <<>>
      item_ids == [k \in 1..Len(persisted) |-> uuid4(uuid_count + k)]
      email_hash == generate_email_hash(email.id, email.source, email.folder,
                                        email.message_id)
  IN /\ uuid_count + Len(persisted) <= MaxUuid
     /\ uuid_count' = uuid_count + Len(persisted)
     /\ action_items' = action_items \cup
          {ActionItem(item_ids[k], email_hash, now) : k \in 1..Len(persisted)}
     /\ last' = [op |-> "extract_from_email", email |-> email, has_llm |-> has_llm,
                 llm_ok |-> llm_ok, candidates |-> candidates, error |-> error,
                 raised |-> raised, result |-> IF raised THEN <<>> ELSE item_ids]
     /\ UNCHANGED <<now, processed_emails, digests, config, settings, mailbox,
                    notmuch_tags, service, loop>>

NextExtract ==
  \E email \in Emails, has_llm \in BOOLEAN, llm_ok \in BOOLEAN,
     candidates \in ExtractCandidates :
    ExtractFromEmail(email, has_llm, llm_ok, candidates)

SpecExtract == InitActions /\ [][NextExtract]_vars

\* ------------------------------------------------ poll_sources on its own
\* _get_sources: the (name, source) pairs in the order they are polled, IMAP
\* accounts before Maildir accounts; the name is the key of the account.
sources == <<"a", "b@x">>

\* Sets of accounts whose source fails to connect or to fetch.
FailedSources == SUBSET {sources[k] : k \in 1..Len(sources)}

\* Mutant: the first failing source ends the loop over the sources.
polled_until_failure(account, failed) ==
  \A k \in 1..Len(sources) :
    sources[k] \in failed => \E j \in 1..(k - 1) : sources[j] = account

\* The two try/except blocks of the fallback loop: a source that fails is
\* logged and skipped, every other source is polled.
polled(account, failed) == account \notin failed

\* The fallback loop's candidates in fetch order: each fetched Email with the
\* source_name and folder that is_email_processed is called with.
fetched_candidates(failed) ==
  LET Test(i) == /\ i \in mailbox
                 /\ Messages[i].folder \in folders
                 /\ polled(Messages[i].account, failed)
      idx == Filter(Len(Messages), {i \in 1..Len(Messages) : Test(i)})
  IN [k \in 1..Len(idx) |-> [email |-> fetch_emails(Messages[idx[k]]),
                             source_name |-> Messages[idx[k]].account,
                             folder |-> Messages[idx[k]].folder]]

\* The check of the fallback loop on one candidate.
candidate_processed(table, c) ==
  is_email_processed(table, c.email.id, c.source_name, c.folder, c.email.message_id)

\* poll_sources, fallback path, with failing sources: the candidates that
\* is_email_processed does not know, in fetch order.
poll_fallback_isolated(failed) ==
  LET fetched == fetched_candidates(failed)
      idx == Filter(Len(fetched), {k \in 1..Len(fetched) :
                                     ~candidate_processed(processed_emails, fetched[k])})
  IN [k \in 1..Len(idx) |-> fetched[idx[k]].email]

\* EmailMonitor.poll_sources(): the notmuch source if it is enabled and
\* answers, else the fallback loop.  It reads the ledger and writes nothing.
PollSources(notmuch_ok, failed) ==
  LET use_notmuch == settings.notmuch_enabled /\ notmuch_ok IN
  /\ settings.notmuch_enabled \/ notmuch_ok
  /\ use_notmuch => failed = {}
  /\ last' = [op |-> "poll_sources",
              path |-> IF use_notmuch THEN "notmuch" ELSE "fallback",
              notmuch_failed |-> settings.notmuch_enabled /\ ~notmuch_ok,
              failed |-> failed,
              fetched |-> IF use_notmuch THEN <<>> ELSE fetched_candidates(failed),
              new_emails |-> IF use_notmuch THEN fetch_unprocessed
                             ELSE poll_fallback_isolated(failed)]
  /\ UNCHANGED <<now, processed_emails, digests, action_items, uuid_count, config,
                 settings, mailbox, notmuch_tags, service, loop>>

\* Mutant: the outer except clause of run_cycle does not count the error.
poll_error_stats_uncounted ==
  [emails_found |-> 0, emails_processed |-> 0, errors |-> 0, action_items_created |-> 0]

\* The statistics of run_cycle when poll_sources raised: the initial zeros,
\* and the one error the outer except clause adds.
poll_error_stats ==
  [emails_found |-> 0, emails_processed |-> 0, errors |-> 1, action_items_created |-> 0]

\* EmailMonitor.run_cycle when poll_sources raises: the outer except clause
\* catches the exception, no email is processed and nothing is written.
RunCyclePollRaises ==
  /\ last' = [op |-> "run_cycle", path |-> "raised", new_emails |-> <<>>,
              outcomes |-> <<>>, results |-> <<>>, raised |-> FALSE,
              stats |-> poll_error_stats]
  /\ UNCHANGED <<now, processed_emails, digests, action_items, uuid_count, config,
                 settings, mailbox, notmuch_tags, service, loop>>

\* The monitor with sources that fail: messages arrive, cycles record them,
\* polls meet failing sources, and cycles meet a poll that raises.
PollStep == \E notmuch_ok \in BOOLEAN, failed \in FailedSources : PollSources(notmuch_ok, failed)

NextPoll == MonitorArrive \/ MonitorCycle \/ PollStep \/ RunCyclePollRaises

SpecPoll == InitMonitor /\ [][NextPoll]_vars

\* ------------------------------------- generate() with a failing database
\* DigestGenerator.generate(period_hours, force=...) when create_digest
\* raises a storage error: the early returns and the content generation are
\* passed, the excluded records have been linked to "filtered", and the
\* exception leaves generate() before the digest row and the links of the
\* relevant records are written.
GenerateCreateRaises(period_hours, force) ==
  LET period == IF period_hours # 0 THEN period_hours ELSE config.period_hours
      period_start == now - period
      all_emails == get_undigested_emails(processed_emails, period_start)
      emails == RelevantEmails(all_emails)
  IN /\ ~BelowThreshold(emails, force)
     /\ ~MarkdownRaises
     /\ processed_emails' = LinkFiltered(processed_emails, all_emails, emails)
     /\ last' = [op |-> "generate", result |-> "raised", digest |-> None,
                 force |-> force, since |-> period_start, failed |-> "create_digest"]
     /\ UNCHANGED <<now, digests, action_items, uuid_count, config, settings, mailbox,
                    notmuch_tags, service, loop>>

StorageGenerate ==
  \E period_hours \in PeriodHoursValues, force \in BOOLEAN :
    GenerateCreateRaises(period_hours, force)

NextStorage == Tick \/ LedgerMark \/ LedgerGenerate \/ StorageGenerate

SpecStorage == Init /\ [][NextStorage]_vars

\* ------------------------------------------ the digest job, run for ever
\* The monitor records a message the ledger does not hold yet.
BacklogMark ==
  \E e \in LedgerEmails, c \in Classifications :
    /\ ~is_email_processed(processed_emails, e.id, e.source, e.folder, e.message_id)
    /\ MarkEmailProcessed(e, c, None)

\* _run_digest_job's call: generate(period_hours=<configured period>), never
\* forced.
BacklogGenerate == Generate(config.period_hours, FALSE) /\ UNCHANGED <<service, loop>>

\* Digest configurations whose rendering does not raise.
InitBacklog ==
  InitWith([min_emails : MinEmailsValues, include_action_items : {FALSE},
            period_hours : {1}, delivery : {<<>>}],
           {[notmuch_enabled |-> TRUE]})

NextBacklog == Tick \/ BacklogMark \/ BacklogGenerate

\* The scheduler fires the digest job at every interval for as long as the
\* service runs, and the clock advances: both steps are taken again and
\* again.
FairBacklog ==
  InitBacklog /\ [][NextBacklog]_vars /\ WF_vars(BacklogGenerate) /\ WF_vars(Tick)

\* ------------------------------------------------------------------ claims
\* Records of a table with a given primary key.
WithId(table, id) == {r \in table : r.id = id}

\* Records linked to a digest id.
LinkedTo(table, digest_id) == {r \in table : r.digest_id = digest_id}

\* C1: the ledger holds one ProcessedRecord per dedup identity, and a
\* markProcessed for an identity that is already recorded overwrites that
\* record (the stored record is the new one) without adding a record.
C1_OneRecordPerIdentity ==
  /\ [](\A r1, r2 \in processed_emails : r1.id = r2.id => r1 = r2)
  /\ [][last'.op = "mark_email_processed" =>
          /\ Cardinality(processed_emails') =
               Cardinality(processed_emails)
                 + (IF WithId(processed_emails, last'.id) = {} THEN 1 ELSE 0)
          /\ \A r \in WithId(processed_emails', last'.id) : r.processed_at = now'
          /\ WithId(processed_emails', last'.id) # {}]_vars

\* C1 witness: the record of Message-ID <m1> written under local id 2 has
\* been overwritten by a markProcessed under local id 3, source b, folder Sent.
C1_Witness ==
  /\ last.op = "mark_email_processed"
  /\ last.replaced = {"2"}
  /\ \E r \in processed_emails : r.id = "<m1>" /\ r.email_id = "3" /\ r.source = "b"
  /\ Cardinality(processed_emails) = 2

\* C2: once a message is recorded in the ledger, no later poll of a
\* monitoring cycle returns it for processing again, on the notmuch path as
\* well as on the fallback path.
C2_ProcessedAtMostOnce ==
  [][last'.op = "run_cycle" =>
       \A i \in 1..Len(last'.new_emails) :
         LET email == last'.new_emails[i]
         IN WithId(processed_emails,
                   generate_email_hash(email.id, email.source, email.folder,
                                       email.message_id)) = {}]_vars

\* C3: once a record carries a digest link, no step makes the link absent
\* again while the record exists.
C3_DigestLinkMonotonic ==
  [][\A r \in processed_emails : \A r2 \in WithId(processed_emails', r.id) :
       r.digest_id # None => r2.digest_id # None]_vars

\* C4: in every state, each persisted digest's email_count is the number of
\* records linked to its id.
C4_EmailCountMatchesLinks ==
  \A d \in digests : d.email_count = Cardinality(LinkedTo(processed_emails, d.id))

\* C4 (amended): when generate() has just returned a digest, that digest is
\* persisted and its email_count is the number of records linked to its id;
\* in every later state email_count is at least the number of records still
\* linked to the digest's id.
C4_EmailCountAtReturn ==
  /\ \A d \in digests : d.email_count >= Cardinality(LinkedTo(processed_emails, d.id))
  /\ (last.op = "generate" /\ last.result = "digest") =>
       \E d \in digests :
         /\ d.id = last.digest
         /\ d.email_count = Cardinality(LinkedTo(processed_emails, d.id))

\* C4 witness: generate() has just returned a digest of one relevant record
\* while an excluded record got the sentinel.
C4_Witness ==
  /\ last.op = "generate" /\ last.result = "digest"
  /\ \E d \in digests : d.id = last.digest /\ d.email_count = 1
  /\ LinkedTo(processed_emails, "filtered") # {}

\* C5: a generate() that returns a digest links every record its undigested
\* query returned (relevant ones to the new id, excluded ones to "filtered"),
\* counts the relevant ones, and leaves nothing for the same query; a
\* generate() directly after it over the same window returns null, or a
\* digest with email_count 0 when forced.
C5_GenerateLinksAll ==
  /\ [][(last'.op = "generate" /\ last'.result = "digest") =>
          LET all_emails == get_undigested_emails(processed_emails, last'.since)
              emails == RelevantEmails(all_emails)
          IN /\ \A r \in all_emails : \E r2 \in WithId(processed_emails', r.id) :
                  r2.digest_id = IF r \in emails THEN last'.digest ELSE "filtered"
             /\ \E d \in WithId(digests', last'.digest) :
                  d.email_count = Cardinality(emails)
             /\ get_undigested_emails(processed_emails', last'.since) = {}]_vars
  /\ [][(/\ last.op = "generate" /\ last.result = "digest"
         /\ last'.op = "generate" /\ last'.since = last.since /\ last' # last) =>
          \/ last'.result = "null" /\ ~last'.force
          \/ /\ last'.result = "digest" /\ last'.force
             /\ \A d \in WithId(digests', last'.digest) : d.email_count = 0
             /\ LinkedTo(processed_emails', last'.digest) = {}]_vars

\* C5 witness: a forced generate() right after a digest of one relevant and
\* one excluded record has returned an empty digest.
C5_Witness ==
  /\ last.op = "generate" /\ last.result = "digest" /\ last.force
  /\ \E d \in digests : d.id = last.digest /\ d.email_count = 0
  /\ \E d \in digests : d.id # last.digest /\ d.email_count = 1
                        /\ d.period_start = last.since /\ d.created_at = now
                        /\ LinkedTo(processed_emails, d.id) # {}
  /\ LinkedTo(processed_emails, "filtered") # {}

\* C6: generate(force=false) returns null when the relevant undigested
\* records of the window are none or fewer than min_emails, and leaves the
\* ledger as it is; generate(force=true) returns a persisted digest whose
\* email_count is the number of relevant records.
C6_ThresholdAndForce ==
  [][last'.op = "generate" =>
       LET emails == RelevantEmails(get_undigested_emails(processed_emails, last'.since))
       IN /\ (~last'.force /\ (emails = {} \/ Cardinality(emails) < config.min_emails))
               => last'.result = "null"
          /\ last'.force =>
               /\ last'.result = "digest"
               /\ \E d \in WithId(digests', last'.digest) :
                    d.email_count = Cardinality(emails)]_vars

\* The transitions the data model allows.
AllowedTransitions ==
  {<<"pending", "in_progress">>, <<"pending", "completed">>, <<"pending", "dismissed">>,
   <<"in_progress", "completed">>, <<"in_progress", "dismissed">>}

\* C7: every change of an item's status is one of the allowed transitions.
C7_AllowedTransitionsOnly ==
  [][\A r \in action_items : \A r2 \in WithId(action_items', r.id) :
       r.status # r2.status => <<r.status, r2.status>> \in AllowedTransitions]_vars

\* C7 (amended): a status changes only through update_action_status, only
\* for the addressed item, and to the requested status, whatever the current
\* status is.
C7_StatusSetAsRequested ==
  [][\A r \in action_items : \A r2 \in WithId(action_items', r.id) :
       r.status # r2.status =>
         /\ last'.op = "update_action_status"
         /\ last'.id = r.id
         /\ r2.status = last'.status]_vars

\* C7 witness: an item that was dismissed after having been completed.
C7_Witness ==
  /\ last.op = "update_action_status" /\ last.status = "dismissed"
  /\ \E r \in action_items :
       r.id = last.id /\ r.status = "dismissed" /\ r.completed_at # NULL
  /\ \E r \in action_items : r.id # last.id /\ r.status = "pending"

\* C8: completed_at is set exactly for the items whose status is completed.
C8_CompletedAtIffCompleted ==
  \A r \in action_items : (r.completed_at # NULL) <=> (r.status = "completed")

\* C8 (amended): an item whose status is completed has completed_at set; an
\* item that has just been created has none.
C8_CompletedHasTimestamp ==
  \A r \in action_items :
    /\ r.status = "completed" => r.completed_at # NULL
    /\ (last.op = "create_action_item" /\ last.id = r.id) => r.completed_at = NULL

\* C8 witness: an item completed one tick after its creation.
C8_Witness ==
  \E r \in action_items : r.status = "completed" /\ r.completed_at > r.created_at

\* C9: update_action_status(id, COMPLETED) sets completed_at to the current
\* time, and a set completed_at is never cleared while the item exists.
C9_CompletedAtKept ==
  [][\A r \in action_items : \A r2 \in WithId(action_items', r.id) :
       /\ r.completed_at # NULL => r2.completed_at # NULL
       /\ (last'.op = "update_action_status" /\ last'.status = "completed"
           /\ last'.id = r.id) => r2.completed_at = now']_vars

\* C9 witness: an item moved to in_progress after completion still carries
\* its completion time.
C9_Witness ==
  /\ last.op = "update_action_status" /\ last.status = "in_progress"
  /\ \E r \in action_items :
       r.id = last.id /\ r.status = "in_progress" /\ r.completed_at # NULL

\* C10: cleanup keeps every pending or in_progress item, removes every
\* completed or dismissed item created before the cutoff and nothing else of
\* the action items, and returns per table the number of rows it removed.
C10_CleanupTerminalOnly ==
  [][last'.op = "cleanup_old_data" =>
       /\ \A r \in action_items :
            r \in action_items' <=>
              ~(r.status \in {"completed", "dismissed"} /\ r.created_at < last'.cutoff)
       /\ action_items' \subseteq action_items
       /\ processed_emails' \subseteq processed_emails
       /\ digests' \subseteq digests
       /\ last'.deleted.action_items =
            Cardinality(action_items) - Cardinality(action_items')
       /\ last'.deleted.processed_emails =
            Cardinality(processed_emails) - Cardinality(processed_emails')
       /\ last'.deleted.digests = Cardinality(digests) - Cardinality(digests')]_vars

\* C10 witness: a cleanup has removed an old completed item and an old
\* processed record, and has kept a pending item of the same age.
C10_Witness ==
  /\ last.op = "cleanup_old_data"
  /\ last.deleted.action_items = 1
  /\ last.deleted.processed_emails = 1
  /\ \E r \in action_items : r.status = "pending" /\ r.created_at < last.cutoff

\* C20: the identity key depends only on the Message-ID when that is present
\* and non-empty (any local id, source and folder give the same key), and
\* otherwise only on (source, folder, local id); without a Message-ID,
\* changing the folder changes the key.
C20_IdentityFunction ==
  last.op = "generate_email_hash" =>
    LET x == last.x
        y == last.y
    IN /\ (Truthy(x.message_id) /\ x.message_id = y.message_id) => last.hx = last.hy
       /\ (~Truthy(x.message_id) /\ ~Truthy(y.message_id) /\ x.source = y.source
           /\ x.folder = y.folder /\ x.id = y.id) => last.hx = last.hy
       /\ (~Truthy(x.message_id) /\ ~Truthy(y.message_id) /\ x.source = y.source
           /\ x.id = y.id /\ x.folder # y.folder) => last.hx # last.hy

\* C20 witness: the same Message-ID under different local id, source and
\* folder gave one key.
C20_Witness ==
  /\ last.op = "generate_email_hash"
  /\ last.x.message_id = "<m1>" /\ last.y.message_id = "<m1>"
  /\ last.x.id # last.y.id /\ last.x.source # last.y.source
  /\ last.x.folder # last.y.folder
  /\ last.hx = last.hy

\* C16: a deliver() call attempts every configured target, a failing target
\* included, and then writes the delivery status once: delivered if a target
\* succeeded, failed otherwise; a digest without content is rejected with no
\* attempt and no status write.
C16_DeliverStatusOnce ==
  [][last'.op = "deliver" =>
       LET targets == IF config.delivery = <<>> THEN 1 ELSE Len(config.delivery)
           any == \E i \in 1..Len(last'.attempted) : last'.attempted[i].delivered
       IN IF last'.has_content
            THEN /\ Len(last'.attempted) = targets
                 /\ \A i \in 1..targets : last'.attempted[i].target = i
                 /\ last'.written = <<IF any THEN "delivered" ELSE "failed">>
                 /\ last'.result = any
                 /\ \A d \in digests : \E d2 \in WithId(digests', d.id) :
                      d2 = IF d.id = last'.digest
                             THEN [d EXCEPT !.delivery_status = last'.written[1]]
                             ELSE d
            ELSE /\ last'.result = FALSE
                 /\ last'.written = <<>>
                 /\ digests' = digests]_vars

\* C16 witness: with two targets the first failed, the second delivered, and
\* the digest is marked delivered.
C16_Witness ==
  /\ last.op = "deliver"
  /\ Len(last.attempted) = 2
  /\ ~last.attempted[1].delivered /\ last.attempted[2].delivered
  /\ config.delivery = <<"file", "file">>
  /\ \E d \in digests : d.id = last.digest /\ d.delivery_status = "delivered"

\* The identity under which process_email records an Email.
HashOf(email) ==
  generate_email_hash(email.id, email.source, email.folder, email.message_id)

\* C11: for a poll of N messages of which k raise during process_email,
\* run_cycle reports emails_found = N, emails_processed = N - k and
\* errors >= k, and every message whose processing did not raise is in the
\* ledger afterwards, wherever the failing messages are in the batch.
C11_CycleIsolation ==
  [][last'.op = "run_cycle" =>
       LET N == Len(last'.new_emails)
           failing == {i \in 1..N : last'.outcomes[i].mark_raises}
           k == Cardinality(failing)
       IN /\ last'.stats.emails_found = N
          /\ last'.stats.emails_processed = N - k
          /\ last'.stats.errors >= k
          /\ \A i \in (1..N) \ failing :
               WithId(processed_emails', HashOf(last'.new_emails[i])) # {}]_vars

\* C11 witness: of three polled messages the second raised; the first and
\* the third are in the ledger.
C11_Witness ==
  /\ last.op = "run_cycle"
  /\ Len(last.new_emails) = 3
  /\ ~last.results[1].raised /\ last.results[2].raised /\ ~last.results[3].raised
  /\ last.stats.emails_processed = 2
  /\ WithId(processed_emails, HashOf(last.new_emails[2])) = {}
  /\ WithId(processed_emails, HashOf(last.new_emails[1])) # {}

\* C12: process_email records the message whenever classification, rule
\* application or action-item extraction fails; each such failure is an
\* entry of the result's error list, classification is absent when
\* classification failed, and process_email returns normally.
C12_FailuresRecorded ==
  [][last'.op = "run_cycle" =>
       \A i \in 1..Len(last'.new_emails) :
         LET outcome == last'.outcomes[i]
             result == last'.results[i]
             failures == (IF outcome.classify_error THEN 1 ELSE 0)
                           + (IF outcome.rules_error THEN 1 ELSE 0)
                           + (IF ~outcome.llm_ok THEN 1 ELSE 0)
         IN ~outcome.mark_raises =>
              /\ ~result.raised
              /\ WithId(processed_emails', HashOf(last'.new_emails[i])) # {}
              /\ result.errors >= failures
              /\ outcome.classify_error => result.classification = None]_vars

AboveThreshold(candidates) ==
  {k \in 1..Len(candidates) : candidates[k].confidence >= confidence_threshold}

\* C14: extract_from_email persists exactly the candidates whose confidence
\* is at or above the threshold and returns one ActionItem per persisted
\* candidate.
C14_ConfidenceFilter ==
  [][last'.op = "run_cycle" =>
       \A i \in 1..Len(last'.new_emails) :
         last'.outcomes[i].llm_ok =>
           /\ Len(last'.results[i].action_items)
                = Cardinality(AboveThreshold(last'.outcomes[i].candidates))
           /\ \A k \in 1..Len(last'.results[i].action_items) :
                \E item \in action_items' : item.id = last'.results[i].action_items[k]]_vars

\* C15: from an empty ledger, a cycle over N new distinct messages whose
\* extraction yields m candidates at or above the threshold reports
\* emails_processed = N and action_items_created = m, and the statistics
\* show N processed emails and m action items, all pending.
C15_EndToEndStats ==
  [][(/\ last'.op = "run_cycle"
      /\ processed_emails = {} /\ action_items = {}
      /\ \A i \in 1..Len(last'.new_emails) :
           /\ ~last'.outcomes[i].mark_raises /\ last'.outcomes[i].llm_ok
           /\ \A j \in 1..Len(last'.new_emails) :
                HashOf(last'.new_emails[i]) = HashOf(last'.new_emails[j]) => i = j)
       => LET N == Len(last'.new_emails)
              m == Sum([i \in 1..N |->
                          Cardinality(AboveThreshold(last'.outcomes[i].candidates))], N)
          IN /\ last'.stats.emails_processed = N
             /\ last'.stats.action_items_created = m
             /\ Cardinality(processed_emails') = N
             /\ Cardinality(action_items') = m
             /\ \A item \in action_items' : item.status = "pending"]_vars

\* C17: at most one monitor cycle is in flight at any time, the initial
\* cycle that start() runs itself included: a monitor job that comes due
\* while a cycle runs does not run concurrently with it.
C17_OneMonitorCycle ==
  Cardinality({t \in Tasks : IsMonitorCycle(t)}) <= 1

\* The monitor job has come due while the initial cycle of start() is in
\* flight.
C17_Witness ==
  /\ loop.current.kind = "start"
  /\ IsMonitorCycle(loop.current)
  /\ \E i \in 1..Len(loop.ready) : loop.ready[i] = Task("wakeup", "monitor", "new", FALSE)

\* C18: stop() never cuts a job short (no job that had begun is cancelled),
\* and the service is Stopped only when no job, and no initial cycle, is
\* still in flight.
C18_StopWaitsForJob ==
  /\ loop.interrupted = {}
  /\ Phase = "Stopped" => \A t \in Tasks : ~InFlight(t)

\* stop() was requested while a job was in flight and has since stopped the
\* service.
C18_Witness ==
  /\ last.op = "stop"
  /\ last.effect
  /\ last.during_job
  /\ Phase = "Stopped"

\* The event loop has executed the ready task or callback of the given kind.
Ran(kind) ==
  /\ Next_ready(kind)
  /\ loop' # loop
  /\ loop'.starts = loop.starts
  /\ loop'.stops = loop.stops
  /\ loop'.fires = loop.fires

\* The lifecycle steps the state machine allows.
LifecycleSteps ==
  { <<"Stopped", "Starting">>, <<"Starting", "Running">>, <<"Running", "Stopping">>,
    <<"Stopping", "Stopped">> }

\* The names of the start() calls.
StartNames == {ToString(n) : n \in 1..MaxStarts}

\* start() call n is blocked on the shutdown event.
Blocked(n) == \E i \in 1..Len(loop.waiters) : loop.waiters[i] = n

\* Lifecycle order; a start() on a running service registers no job, runs no
\* cycle and changes nothing, and a start() on a stopped one starts it; a
\* stop() on a stopped service changes nothing.
LifecycleSafety ==
  /\ Phase' # Phase => <<Phase, Phase'>> \in LifecycleSteps
  /\ Ran("start") /\ Head(loop.ready).pc = "new" =>
       IF service.running
       THEN /\ service' = service
            /\ stores' = stores
            /\ \A t \in Tasks' : ~InFlight(t)
       ELSE /\ Phase' = "Starting"
            /\ ScheduledJobs \subseteq service'.jobs
  /\ Ran("stop") /\ ~service.running =>
       /\ service' = service
       /\ stores' = stores
       /\ loop' = [loop EXCEPT !.ready = Tail(@)]

\* The blocked start() call n returns in this step.
Returns(n) ==
  /\ Ran("start")
  /\ Head(loop.ready) = Task("start", n, "woken", FALSE)
  /\ n \in loop'.returned

\* Once stop() is stopping a running service, every blocked start() returns.
BlockedStartReturns ==
  \A n \in StartNames : (Phase = "Stopping" /\ Blocked(n)) ~> (n \in loop.returned)

\* C19 as stated: lifecycle order, start() and stop() idempotent, and after
\* stop() on a running service the blocked start() eventually returns with
\* the service Stopped.
C19_Lifecycle ==
  /\ [][LifecycleSafety]_vars
  /\ BlockedStartReturns
  /\ [][\A n \in StartNames : Returns(n) => Phase' = "Stopped"]_vars

\* C19, amended: lifecycle order, start() and stop() idempotent, and after
\* stop() on a running service the blocked start() eventually returns; the
\* service is Stopped when it returns unless another start() call has
\* started it again in between.
C19_LifecycleUnlessRestarted ==
  /\ [][LifecycleSafety]_vars
  /\ BlockedStartReturns
  /\ [][\A n \in StartNames :
          Returns(n) =>
            \/ Phase' = "Stopped"
            \/ Phase' = "Running" /\ \E m \in StartNames \ {n} : Blocked(m)]_vars

\* A blocked start() has returned after stop(), the service Stopped.
C19_Witness ==
  /\ last.op = "start_returned"
  /\ ~last.running
  /\ Phase = "Stopped"

\* C21: extract_from_email never raises to its caller; without an LLM
\* processor it returns the empty list and writes nothing to the ledger, and
\* an exception during the LLM call or the parsing of its answer yields the
\* empty list.
C21_ExtractNeverRaises ==
  [][last'.op = "extract_from_email" =>
       /\ ~last'.raised
       /\ ~last'.has_llm =>
            /\ last'.result = <<>>
            /\ action_items' = action_items
            /\ processed_emails' = processed_emails
            /\ digests' = digests
       /\ last'.has_llm /\ ~last'.llm_ok => last'.result = <<>>]_vars

\* extract_from_email has returned after its LLM call failed.
C21_Witness ==
  /\ last.op = "extract_from_email"
  /\ last.has_llm
  /\ ~last.llm_ok
  /\ last.error = "LLMError"
  /\ last.result = <<>>

\* C22: if the poll step raises, run_cycle does not raise, processes no
\* message, leaves the ledger unchanged and returns statistics with
\* emails_found = 0, emails_processed = 0 and errors = 1.
C22_PollErrorCounted ==
  [][last'.op = "run_cycle" /\ last'.path = "raised" =>
       /\ ~last'.raised
       /\ last'.results = <<>>
       /\ processed_emails' = processed_emails
       /\ action_items' = action_items
       /\ digests' = digests
       /\ last'.stats.emails_found = 0
       /\ last'.stats.emails_processed = 0
       /\ last'.stats.errors = 1]_vars

\* C22 witness: a cycle whose poll raised, with unrecorded mail waiting in
\* the stores and records already in the ledger.
C22_Witness ==
  /\ last.op = "run_cycle" /\ last.path = "raised"
  /\ last.stats.errors = 1
  /\ processed_emails # {}
  /\ \E i \in mailbox :
       ~is_email_processed(processed_emails, Messages[i].id, Messages[i].account,
                           Messages[i].folder, Messages[i].header)

C26_CheckedIdentityIsRecorded ==
  last.op = "poll_sources" /\ last.path = "fallback" =>
    /\ \A j \in 1..Len(last.fetched) :
         LET c == last.fetched[j]
         IN generate_email_hash(c.email.id, c.source_name, c.folder, c.email.message_id)
              = HashOf(c.email)
    /\ \A k \in 1..Len(last.new_emails) :
         WithId(processed_emails, HashOf(last.new_emails[k])) = {}

\* C27: the list one poll_sources call returns holds at most one message per
\* dedup identity, so one run_cycle processes (and extracts action items
\* from) a logical message at most once.
C27_OnePerIdentity ==
  last.op \in {"poll_sources", "run_cycle"} =>
    \A j, k \in 1..Len(last.new_emails) :
      HashOf(last.new_emails[j]) = HashOf(last.new_emails[k]) => j = k

\* C24: generate() persists the digest before it changes any digest link,
\* of relevant and of excluded records alike, so a call that fails while the
\* digest is persisted leaves every record's link as it was.
C24_DigestBeforeLinks ==
  [][last'.op = "generate" /\ last'.result = "raised" =>
       processed_emails' = processed_emails]_vars

\* C28: when generate() returns null (no relevant record in the window, or
\* fewer than min_emails, and force not set) the ledger is unchanged: no
\* digest is created and no record's digest link is modified, the links of
\* excluded-category records included.
C28_NullLeavesLedger ==
  [][last'.op = "generate" =>
       LET all_emails == get_undigested_emails(processed_emails, last'.since)
           emails == RelevantEmails(all_emails)
       IN /\ (~last'.force /\ (emails = {} \/ Cardinality(emails) < config.min_emails)) =>
               /\ last'.result = "null"
               /\ \A r \in all_emails \ emails : r \in processed_emails'
          /\ last'.result = "null" =>
               /\ processed_emails' = processed_emails
               /\ digests' = digests
               /\ uuid_count' = uuid_count]_vars

\* C28 witness: an unforced generate() returned null with one relevant and
\* one spam record undigested in the window, min_emails being 2; both are
\* still unlinked.
C28_Witness ==
  /\ last.op = "generate" /\ last.result = "null" /\ ~last.force
  /\ config.min_emails = 2
  /\ \E r \in get_undigested_emails(processed_emails, last.since) :
       Category(r) \in excluded_categories
  /\ RelevantEmails(get_undigested_emails(processed_emails, last.since)) # {}
  /\ digests = {}

\* C30: with generate() invoked again and again without force, every
\* processed record whose category is not excluded is eventually linked to a
\* digest; it is not left undigested for ever because earlier calls returned
\* null or because it left the lookback window.
C30_EventuallyDigested ==
  \A id \in {HashOf(e) : e \in LedgerEmails} :
    (\E r \in WithId(processed_emails, id) :
       r.digest_id = None /\ Category(r) \notin excluded_categories)
      ~> (\E r \in WithId(processed_emails, id) : r.digest_id # None)

====
